---------------------------- MODULE Spec2Model ----------------------------
(***************************************************************************)
(* Model of manimarks.py, the console personal-finance toolkit.            *)
(*                                                                         *)
(* Two parts of the program are modelled:                                  *)
(*   - the tax estimator: run_tax_estimator (slab entry loop, empty-table  *)
(*     abort, income prompt) and the bracket walk of estimate_tax, one     *)
(*     loop iteration per step (specification Spec);                       *)
(*   - the calculators savings_projection (its loop, one iteration per     *)
(*     step), lump_sum_growth and sip_needed (specification SpecFin).      *)
(*                                                                         *)
(* Python floats are modelled as exact rationals [n |-> num, d |-> den]    *)
(* in lowest terms with d > 0: the properties checked are those of the     *)
(* arithmetic the code performs, not of IEEE rounding, NaN or infinity.    *)
(* A value that may be None is [none |-> BOOLEAN, v |-> rational].         *)
(***************************************************************************)
EXTENDS Integers, Sequences, FiniteSets, TLC

VARIABLES
    \* ---- run_tax_estimator / estimate_tax ----
    pc,              \* position: "entry", "income", "call", "tax_loop",
                     \*           "done", "aborted", "error"
    line,            \* the last line read by the slab entry loop (tokens)
    slabs,           \* the list of (upper_limit, rate_pct) collected
    prompted,        \* the income prompt of line 229 has been issued
    called,          \* estimate_tax has been called
    taxable_income,  \* argument of estimate_tax
    tax,             \* local of estimate_tax
    prev_limit,      \* local of estimate_tax
    remaining,       \* local of estimate_tax
    idx,             \* index of the next bracket of the for loop
    taxed,           \* sum of the taxable_here amounts subtracted so far
    \* ---- savings_projection / lump_sum_growth / sip_needed ----
    fpc,             \* position: "idle", "call", "savings_loop", "done"
    fn,              \* the calculator being evaluated
    amount,          \* the first argument: monthly_saving, principal or
                     \* goal_amount
    monthly_saving,  \* argument of the running savings_projection
    annual_rate_pct, \* argument
    rate2,           \* annual_rate_pct of a second evaluation, run beside
                     \* the first on the same other arguments
    years,           \* argument
    fv,              \* local of savings_projection
    fv2,             \* fv of the second evaluation
    i,               \* iterations of savings_projection's loop done so far
    result,          \* returned value: [raised |-> BOOLEAN, v |-> rational]
    result2          \* returned value of the second evaluation

taxVars == <<pc, line, slabs, prompted, called, taxable_income, tax,
             prev_limit, remaining, idx, taxed>>
finVars == <<fpc, fn, amount, monthly_saving, annual_rate_pct, rate2, years,
             fv, fv2, i, result, result2>>
vars == <<pc, line, slabs, prompted, called, taxable_income, tax,
          prev_limit, remaining, idx, taxed,
          fpc, fn, amount, monthly_saving, annual_rate_pct, rate2, years,
          fv, fv2, i, result, result2>>

---------------------------------------------------------------------------
(* Bounds of the model.                                                    *)

\* the longest slab table the entry loop may collect
MaxSlabs == 3
\* the longest period, in years, given to a calculator
MaxYears == 1
\* inputs are kept to those whose growth factor, raised to the number of
\* periods, stays below this magnitude
MaxMagnitude == 50000000

---------------------------------------------------------------------------
(* Exact rational arithmetic standing for Python's float operations.       *)

Abs(x) == IF x < 0 THEN -x ELSE x

RECURSIVE GCD(_, _)
GCD(a, b) == IF b = 0 THEN a ELSE GCD(b, a % b)

\* the rational num/den (den # 0) in lowest terms
Norm(num, den) ==
    LET g == GCD(Abs(num), Abs(den))
        s == IF den < 0 THEN -1 ELSE 1
    IN  [n |-> s * (num \div g), d |-> s * (den \div g)]

R(x) == [n |-> x, d |-> 1]

RNeg(a) == [n |-> -a.n, d |-> a.d]

RAdd(a, b) ==
    LET g == GCD(a.d, b.d)
    IN  Norm(a.n * (b.d \div g) + b.n * (a.d \div g), (a.d \div g) * b.d)

RSub(a, b) == RAdd(a, RNeg(b))

RMul(a, b) ==
    LET g1 == GCD(Abs(a.n), b.d)
        g2 == GCD(Abs(b.n), a.d)
    IN  Norm((a.n \div g1) * (b.n \div g2), (a.d \div g2) * (b.d \div g1))

\* a / b for b # 0
RDiv(a, b) ==
    RMul(a, IF b.n < 0 THEN [n |-> -b.d, d |-> -b.n] ELSE [n |-> b.d, d |-> b.n])

RLt(a, b) ==
    LET fa == a.n \div a.d
        fb == b.n \div b.d
    IN  IF fa # fb THEN fa < fb
        ELSE (a.n % a.d) * b.d < (b.n % b.d) * a.d

RLe(a, b) == a = b \/ RLt(a, b)

\* Python's min(a, b) and max(a, b)
RMin(a, b) == IF RLt(b, a) THEN b ELSE a
RMax(a, b) == IF RLt(a, b) THEN b ELSE a

\* a ** k for an integer k >= 0
RECURSIVE RPow(_, _)
RPow(a, k) ==
    IF k <= 0 THEN R(1)
    ELSE IF k % 2 = 1 THEN RMul(a, RPow(a, k - 1))
    ELSE RPow(RMul(a, a), k \div 2)

None == [none |-> TRUE, v |-> R(0)]
Some(x) == [none |-> FALSE, v |-> x]

---------------------------------------------------------------------------
(* Input domains.                                                          *)

\* a token of an input line: the text of a number, or a word
Num(x) == [w |-> "num", v |-> x]
Word(s) == [w |-> s, v |-> 0]

\* upper limits and rates a user types for a slab
LimitTokens == {Word("None"), Num(0), Num(1), Num(3)}
RateTokens == {Num(-5), Num(0), Num(20)}

ValidLines == {<<u, r>> : u \in LimitTokens, r \in RateTokens}
InvalidLines == { <<Num(3)>>, <<Num(3), Num(20), Num(1)>>,
                  <<Word("abc"), Num(20)>>, <<Num(3), Word("abc")>>,
                  <<Word("rest"), Word("None")>> }
Lines == ValidLines \cup InvalidLines \cup { <<>>, <<Word("rest"), Num(20)>> }

\* taxable incomes typed at the income prompt
Incomes == {R(-1), R(0), R(1), R(2), R(3), R(4)}

---------------------------------------------------------------------------
(* run_tax_estimator: parsing of one slab line.                            *)

\* str.lower() on the words of the input domain
Lower(w) == CASE w = "None" -> "none"
              [] w = "REST" -> "rest"
              [] OTHER -> w

\* float(s): the number a numeric text denotes; a word raises ValueError
FloatOk(tok) == tok.w = "num"
Float(tok) == R(tok.v)

\* line.strip() == ""
IsBlank(l) == Len(l) = 0

\* len(parts) != 2
BadParts(l) == Len(l) # 2

\* up.lower() in ("none", "nil", "rest")
IsNoneWord(tok) == Lower(tok.w) \in {"none", "nil", "rest"}

\* float(up) raises ValueError
BadUpper(l) == ~IsNoneWord(l[1]) /\ ~FloatOk(l[1])

\* float(r) raises ValueError
BadRate(l) == ~FloatOk(l[2])

\* the tuple (up_val, r_val) appended for a valid line
ParseSlab(l) ==
    [limit |-> IF IsNoneWord(l[1]) THEN None ELSE Some(Float(l[1])),
     rate  |-> Float(l[2])]

\* slip: "if slabs is None", which no list satisfies
NoSlabsIsNone(s) == FALSE

\* "if not slabs": the table collected is empty
NoSlabs(s) == Len(s) = 0

---------------------------------------------------------------------------
(* estimate_tax: the body of one iteration of the bracket loop.            *)

\* slip: the bracket's width taken as its upper limit, "limit" for
\* "limit - prev_limit"
TaxableHereNoPrev(limit, rem, prev) ==
    IF limit.none THEN rem
    ELSE RMax(R(0), RMin(rem, limit.v))

\* slip: the bracket's width not capped by what remains
TaxableHereNoMin(limit, rem, prev) ==
    IF limit.none THEN rem
    ELSE RMax(R(0), RSub(limit.v, prev.v))

\* slip: max written for min
TaxableHereMaxForMin(limit, rem, prev) ==
    IF limit.none THEN rem
    ELSE RMax(R(0), RMax(rem, RSub(limit.v, prev.v)))

\* taxable_here, lines 107-110
TaxableHere(limit, rem, prev) ==
    IF limit.none THEN rem
    ELSE RMax(R(0), RMin(rem, RSub(limit.v, prev.v)))

\* slip: "prev_limit = limit" without the None guard
NextPrevNoGuard(limit, prev) == limit

\* prev_limit = limit if limit is not None else prev_limit, lines 112, 116
NextPrev(limit, prev) == IF limit.none THEN prev ELSE limit

\* slip: "tax =" for "tax +="
AddTaxOverwrite(t, here, rate) == RMul(here, RDiv(rate, R(100)))

\* tax += taxable_here * (rate / 100.0), line 114
AddTax(t, here, rate) == RAdd(t, RMul(here, RDiv(rate, R(100))))

\* remaining -= taxable_here, line 115
Deduct(rem, here) == RSub(rem, here)

\* One iteration on the loop state st for the bracket slab.  st.raised
\* records a TypeError (limit - prev_limit with prev_limit None), st.brk
\* the break of line 118.
TaxBody(st, slab) ==
    IF ~slab.limit.none /\ st.prev_limit.none
    THEN [st EXCEPT !.raised = TRUE]
    ELSE
      LET here == TaxableHere(slab.limit, st.remaining, st.prev_limit)
      IN  IF RLe(here, R(0))
          THEN [st EXCEPT !.prev_limit = NextPrev(slab.limit, st.prev_limit)]
          ELSE [tax        |-> AddTax(st.tax, here, slab.rate),
                remaining  |-> Deduct(st.remaining, here),
                prev_limit |-> NextPrev(slab.limit, st.prev_limit),
                taxed      |-> RAdd(st.taxed, here),
                brk        |-> RLe(Deduct(st.remaining, here), R(0)),
                raised     |-> FALSE]

\* the locals of estimate_tax on entry, lines 103-105
TaxStart(income) ==
    [tax |-> R(0), remaining |-> income, prev_limit |-> Some(R(0)),
     taxed |-> R(0), brk |-> FALSE, raised |-> FALSE]

\* the for loop from bracket k on
RECURSIVE TaxLoop(_, _, _)
TaxLoop(st, table, k) ==
    IF k > Len(table) \/ st.brk \/ st.raised THEN st
    ELSE TaxLoop(TaxBody(st, table[k]), table, k + 1)

\* estimate_tax(taxable_income, slabs) as a function of its arguments
estimate_tax(income, table) == TaxLoop(TaxStart(income), table, 1).tax

---------------------------------------------------------------------------
(* Specification Spec: run_tax_estimator and the estimate_tax it calls.    *)

\* the calculators are not running
FinIdle ==
    /\ fpc = "idle" /\ fn = "none" /\ amount = R(0) /\ monthly_saving = R(0)
    /\ annual_rate_pct = R(0) /\ rate2 = R(0) /\ years = 0
    /\ fv = R(0) /\ fv2 = R(0) /\ i = 0
    /\ result = [raised |-> FALSE, v |-> R(0)]
    /\ result2 = [raised |-> FALSE, v |-> R(0)]

\* slabs = [] (line 202); nothing read, prompted or computed yet
Init ==
    /\ pc = "entry" /\ line = <<>> /\ slabs = <<>>
    /\ prompted = FALSE /\ called = FALSE
    /\ taxable_income = R(0) /\ tax = R(0)
    /\ prev_limit = Some(R(0)) /\ remaining = R(0)
    /\ idx = 0 /\ taxed = R(0)
    /\ FinIdle

\* lines 204-206 and 226-228: a blank line ends the entry; with no slab
\* collected the action returns, else it goes on to the income prompt
read_blank ==
    /\ pc = "entry"
    /\ \E l \in Lines :
          /\ IsBlank(l)
          /\ line' = l
    /\ pc' = IF NoSlabs(slabs) THEN "aborted" ELSE "income"
    /\ UNCHANGED <<slabs, prompted, called, taxable_income, tax, prev_limit,
                   remaining, idx, taxed>>
    /\ UNCHANGED finVars

\* lines 207-210: not exactly two parts
reject_parts ==
    /\ pc = "entry"
    /\ \E l \in Lines :
          /\ ~IsBlank(l) /\ BadParts(l)
          /\ line' = l
    /\ UNCHANGED <<pc, slabs, prompted, called, taxable_income, tax,
                   prev_limit, remaining, idx, taxed>>
    /\ UNCHANGED finVars

\* lines 212-219: the upper limit is neither a none-word nor a number
reject_upper ==
    /\ pc = "entry"
    /\ \E l \in Lines :
          /\ ~IsBlank(l) /\ ~BadParts(l) /\ BadUpper(l)
          /\ line' = l
    /\ UNCHANGED <<pc, slabs, prompted, called, taxable_income, tax,
                   prev_limit, remaining, idx, taxed>>
    /\ UNCHANGED finVars

\* lines 220-224: the rate is not a number
reject_rate ==
    /\ pc = "entry"
    /\ \E l \in Lines :
          /\ ~IsBlank(l) /\ ~BadParts(l) /\ ~BadUpper(l) /\ BadRate(l)
          /\ line' = l
    /\ UNCHANGED <<pc, slabs, prompted, called, taxable_income, tax,
                   prev_limit, remaining, idx, taxed>>
    /\ UNCHANGED finVars

\* line 225: a valid line appends its slab
append_slab ==
    /\ pc = "entry"
    /\ Len(slabs) < MaxSlabs
    /\ \E l \in Lines :
          /\ ~IsBlank(l) /\ ~BadParts(l) /\ ~BadUpper(l) /\ ~BadRate(l)
          /\ line' = l
          /\ slabs' = Append(slabs, ParseSlab(l))
    /\ UNCHANGED <<pc, prompted, called, taxable_income, tax, prev_limit,
                   remaining, idx, taxed>>
    /\ UNCHANGED finVars

\* line 229: get_float prompts until it has a number (typed or default)
read_income ==
    /\ pc = "income"
    /\ \E inc \in Incomes : taxable_income' = inc
    /\ prompted' = TRUE
    /\ pc' = "call"
    /\ UNCHANGED <<line, slabs, called, tax, prev_limit, remaining, idx, taxed>>
    /\ UNCHANGED finVars

\* line 230 and lines 103-105: the call sets up the locals
call_estimate_tax ==
    /\ pc = "call"
    /\ called' = TRUE
    /\ tax' = TaxStart(taxable_income).tax
    /\ prev_limit' = TaxStart(taxable_income).prev_limit
    /\ remaining' = TaxStart(taxable_income).remaining
    /\ taxed' = TaxStart(taxable_income).taxed
    /\ idx' = 1
    /\ pc' = "tax_loop"
    /\ UNCHANGED <<line, slabs, prompted, taxable_income>>
    /\ UNCHANGED finVars

\* lines 106-118: one bracket
tax_iter ==
    /\ pc = "tax_loop"
    /\ idx <= Len(slabs)
    /\ LET st == TaxBody([tax |-> tax, remaining |-> remaining,
                          prev_limit |-> prev_limit, taxed |-> taxed,
                          brk |-> FALSE, raised |-> FALSE], slabs[idx])
       IN  /\ tax' = st.tax
           /\ remaining' = st.remaining
           /\ prev_limit' = st.prev_limit
           /\ taxed' = st.taxed
           /\ pc' = IF st.raised THEN "error"
                    ELSE IF st.brk THEN "tax_ret" ELSE "tax_loop"
    /\ idx' = idx + 1
    /\ UNCHANGED <<line, slabs, prompted, called, taxable_income>>
    /\ UNCHANGED finVars

\* line 106: the table is exhausted
for_end ==
    /\ pc = "tax_loop"
    /\ idx > Len(slabs)
    /\ pc' = "tax_ret"
    /\ UNCHANGED <<line, slabs, prompted, called, taxable_income, tax,
                   prev_limit, remaining, idx, taxed>>
    /\ UNCHANGED finVars

\* lines 119 and 231: return tax, print it
tax_return ==
    /\ pc = "tax_ret"
    /\ pc' = "done"
    /\ UNCHANGED <<line, slabs, prompted, called, taxable_income, tax,
                   prev_limit, remaining, idx, taxed>>
    /\ UNCHANGED finVars

Next ==
    \/ read_blank
    \/ reject_parts
    \/ reject_upper
    \/ reject_rate
    \/ append_slab
    \/ read_income
    \/ call_estimate_tax
    \/ tax_iter
    \/ for_end
    \/ tax_return

Spec == Init /\ [][Next]_vars

---------------------------------------------------------------------------
(* Properties of the tax estimator, checked under Spec.                    *)

\* the bounded brackets of the table have non-decreasing upper limits,
\* starting at or above 0
BoundsAscending(table) ==
    /\ \A k \in 1..Len(table) :
          ~table[k].limit.none => RLe(R(0), table[k].limit.v)
    /\ \A j, k \in 1..Len(table) :
          (j < k /\ ~table[j].limit.none /\ ~table[k].limit.none)
             => RLe(table[j].limit.v, table[k].limit.v)

\* ascending table: an unbounded bracket, if any, is the last one
Ascending(table) ==
    /\ BoundsAscending(table)
    /\ \A k \in 1..Len(table) : table[k].limit.none => k = Len(table)

\* well-formed table: ascending, with exactly one unbounded bracket, last
WellFormed(table) ==
    /\ Len(table) >= 1
    /\ Ascending(table)
    /\ table[Len(table)].limit.none

NonNegRates(table) == \A k \in 1..Len(table) : RLe(R(0), table[k].rate)

\* U_{k-1}: the upper bound below bracket k of a well-formed table
LowerBound(table, k) == IF k = 1 THEN R(0) ELSE table[k - 1].limit.v

\* the part of the income lying in the band of bracket k
Band(income, table, k) ==
    IF table[k].limit.none
    THEN RMax(R(0), RSub(income, LowerBound(table, k)))
    ELSE RMax(R(0), RSub(RMin(income, table[k].limit.v), LowerBound(table, k)))

\* sum over the brackets 1..k of rate/100 times the band's part
RECURSIVE BandSum(_, _, _)
BandSum(income, table, k) ==
    IF k = 0 THEN R(0)
    ELSE RAdd(BandSum(income, table, k - 1),
              RMul(RDiv(table[k].rate, R(100)), Band(income, table, k)))

\* the table of the docstring of estimate_tax
ExampleSlabs ==
    << [limit |-> Some(R(250000)), rate |-> R(0)],
       [limit |-> Some(R(500000)), rate |-> R(5)],
       [limit |-> Some(R(1000000)), rate |-> R(20)],
       [limit |-> None, rate |-> R(30)] >>

InTax == pc \in {"tax_loop", "tax_ret", "done"}

\* C1: for income >= 0 and a well-formed table, estimate_tax returns the
\* sum over the brackets of rate/100 times the part of the income in the
\* bracket's band; the brackets the early stop leaves unvisited have an
\* empty part; income 800000 on the docstring's table gives 72500.
C1_TaxIsBandSum ==
    /\ (pc = "entry" /\ Len(slabs) = 0)
          => estimate_tax(R(800000), ExampleSlabs) = R(72500)
    /\ (pc = "done" /\ RLe(R(0), taxable_income) /\ WellFormed(slabs))
          => /\ tax = BandSum(taxable_income, slabs, Len(slabs))
             /\ \A k \in idx..Len(slabs) :
                   Band(taxable_income, slabs, k) = R(0)

\* C1 witness: a three-bracket well-formed table, the walk stopped early
\* (the unbounded bracket was never visited) with a positive tax
C1_Witness ==
    /\ pc = "done" /\ WellFormed(slabs) /\ Len(slabs) = 3
    /\ taxable_income = R(2)
    /\ idx <= Len(slabs)
    /\ RLt(R(0), tax)

\* C2 as stated: for an ascending table and income >= 0 the tax is
\* non-negative and no larger than the tax on any larger income.
C2_Original ==
    (pc = "done" /\ RLe(R(0), taxable_income) /\ Ascending(slabs))
       => /\ RLe(R(0), tax)
          /\ \A b \in Incomes :
                RLe(taxable_income, b) => RLe(tax, estimate_tax(b, slabs))

\* C2 amended: for an ascending table whose rates are all non-negative
\* and income >= 0, the tax is non-negative and no larger than the tax on
\* any larger income.
C2_TaxMonotone ==
    (pc = "done" /\ RLe(R(0), taxable_income) /\ Ascending(slabs)
       /\ NonNegRates(slabs))
       => /\ RLe(R(0), tax)
          /\ \A b \in Incomes :
                RLe(taxable_income, b) => RLe(tax, estimate_tax(b, slabs))

\* C2 witness: an ascending table with non-negative rates, a positive tax
\* and a larger income taxed strictly more
C2_Witness ==
    /\ pc = "done" /\ Ascending(slabs) /\ NonNegRates(slabs)
    /\ RLt(R(0), tax)
    /\ \E b \in Incomes :
          RLt(taxable_income, b) /\ RLt(tax, estimate_tax(b, slabs))

\* C7: estimate_tax is called, and the income prompted for, only with a
\* table of at least one bracket; once the entry loop is left with no slab
\* collected, the action has aborted with neither prompt nor call.
C7_EmptyTableRejected ==
    /\ called => Len(slabs) >= 1
    /\ prompted => Len(slabs) >= 1
    /\ (pc # "entry" /\ Len(slabs) = 0) => pc = "aborted"
    /\ pc = "aborted" => (~prompted /\ ~called /\ Len(slabs) = 0)

\* C7 witness: the blank line came with no slab collected and the action
\* aborted
C7_Witness == pc = "aborted" /\ IsBlank(line) /\ Len(slabs) = 0

\* C8: on every non-empty table, malformed ones included, and every income,
\* the walk raises no error, makes at most one pass (after j iterations
\* idx = j + 1 <= Len(slabs) + 1, so at most Len(slabs) iterations), and
\* returns the number the function of (income, table) gives.
C8_TotalOnAnyTable ==
    /\ pc # "error"
    /\ ~prev_limit.none
    /\ InTax => (idx >= 1 /\ idx <= Len(slabs) + 1)
    /\ pc \in {"tax_ret", "done"}
          => tax = estimate_tax(taxable_income, slabs)

\* C8 witness: a table whose unbounded bracket comes first, followed by a
\* bounded one, walked to its end
C8_Witness ==
    /\ pc = "done" /\ Len(slabs) >= 2
    /\ slabs[1].limit.none /\ ~slabs[2].limit.none
    /\ idx > Len(slabs)

\* C9: for income >= 0 and any table, after each bracket remaining >= 0 and
\* the amounts taxed so far plus remaining make up the income, so the total
\* taxed never exceeds the income.
C9_Conservation ==
    (InTax /\ RLe(R(0), taxable_income))
       => /\ RLe(R(0), remaining)
          /\ RAdd(taxed, remaining) = taxable_income
          /\ RLe(taxed, taxable_income)

\* C9 witness: a table that is not ascending, two brackets processed, part
\* of the income taxed and part still remaining
C9_Witness ==
    /\ pc = "tax_loop" /\ idx = 3 /\ ~Ascending(slabs)
    /\ RLt(R(0), taxed) /\ RLt(R(0), remaining)

---------------------------------------------------------------------------
(* The calculators: savings_projection, lump_sum_growth, sip_needed.       *)

\* arguments given to the calculators
Amounts == {R(-2), R(0), R(1), R(3)}
Rates == {R(-2400), R(-1200), R(0), R(600), R(1200), R(2400)}

\* r = annual_rate_pct / 100.0 / 12.0, lines 65, 79
MonthlyRate(rate) == RDiv(RDiv(rate, R(100)), R(12))

\* n = years * 12, lines 66, 80
Periods(y) == y * 12

\* slip: growth applied before the deposit
SavingsStepCompoundFirst(bal, monthly, r) ==
    RAdd(RMul(bal, RAdd(R(1), r)), monthly)

\* fv = (fv + monthly_saving) * (1 + r), line 69
SavingsStep(bal, monthly, r) ==
    RMul(RAdd(bal, monthly), RAdd(R(1), r))

\* slip: the rate subtracted, (1 - r) ** years
LumpSumMinus(principal, rate, y) ==
    RMul(principal, RPow(RSub(R(1), RDiv(rate, R(100))), y))

\* lump_sum_growth, lines 72-75 (years >= 0)
lump_sum_growth(principal, rate, y) ==
    RMul(principal, RPow(RAdd(R(1), RDiv(rate, R(100))), y))

\* slip: the "- 1" of the annuity denominator left out
SipNeededNoMinusOne(goal_amount, rate, y) ==
    LET r == MonthlyRate(rate)
        n == Periods(y)
    IN  IF r = R(0)
        THEN IF n = 0 THEN [raised |-> TRUE, v |-> R(0)]
             ELSE [raised |-> FALSE, v |-> RDiv(goal_amount, R(n))]
        ELSE LET den == RPow(RAdd(R(1), r), n)
             IN  IF den = R(0) THEN [raised |-> TRUE, v |-> R(0)]
                 ELSE [raised |-> FALSE,
                       v |-> RDiv(RMul(goal_amount, r), den)]

\* the solver "repaired" to invert the deposit-then-compound engine
SipNeededAnnuityDue(goal_amount, rate, y) ==
    LET r == MonthlyRate(rate)
        n == Periods(y)
    IN  IF r = R(0)
        THEN IF n = 0 THEN [raised |-> TRUE, v |-> R(0)]
             ELSE [raised |-> FALSE, v |-> RDiv(goal_amount, R(n))]
        ELSE LET den == RMul(RSub(RPow(RAdd(R(1), r), n), R(1)),
                             RAdd(R(1), r))
             IN  IF den = R(0) THEN [raised |-> TRUE, v |-> R(0)]
                 ELSE [raised |-> FALSE,
                       v |-> RDiv(RMul(goal_amount, r), den)]

\* sip_needed, lines 77-85; raised: the division raises ZeroDivisionError
sip_needed(goal_amount, rate, y) ==
    LET r == MonthlyRate(rate)
        n == Periods(y)
    IN  IF r = R(0)
        THEN IF n = 0 THEN [raised |-> TRUE, v |-> R(0)]
             ELSE [raised |-> FALSE, v |-> RDiv(goal_amount, R(n))]
        ELSE LET den == RSub(RPow(RAdd(R(1), r), n), R(1))
             IN  IF den = R(0) THEN [raised |-> TRUE, v |-> R(0)]
                 ELSE [raised |-> FALSE,
                       v |-> RDiv(RMul(goal_amount, r), den)]

\* b ** k <= cap, computed without forming the power
RECURSIVE PowWithin(_, _, _)
PowWithin(b, k, cap) ==
    IF k <= 0 THEN cap >= 1
    ELSE b <= cap /\ PowWithin(b, k - 1, cap \div b)

Magnitude(a) == IF Abs(a.n) > a.d THEN Abs(a.n) ELSE a.d

\* the inputs whose values the model's integers can hold
Fits(f, rate, y) ==
    IF f = "lump_sum_growth"
    THEN PowWithin(Magnitude(RAdd(R(1), RDiv(rate, R(100)))), y,
                   MaxMagnitude)
    ELSE PowWithin(Magnitude(RAdd(R(1), MonthlyRate(rate))), Periods(y) + 1,
                   MaxMagnitude)

\* the tax estimator is not running
TaxIdle ==
    /\ pc = "entry" /\ line = <<>> /\ slabs = <<>>
    /\ prompted = FALSE /\ called = FALSE
    /\ taxable_income = R(0) /\ tax = R(0)
    /\ prev_limit = Some(R(0)) /\ remaining = R(0)
    /\ idx = 0 /\ taxed = R(0)

\* a calculator is about to be called on some arguments; savings_projection
\* and lump_sum_growth are evaluated at two rates side by side
FinInit ==
    /\ TaxIdle
    /\ fpc = "call"
    /\ fn \in {"savings_projection", "lump_sum_growth", "sip_needed"}
    /\ amount \in Amounts
    /\ annual_rate_pct \in Rates
    /\ rate2 \in Rates
    /\ fn = "sip_needed" => rate2 = annual_rate_pct
    /\ years \in 0..MaxYears
    /\ Fits(fn, annual_rate_pct, years)
    /\ Fits(fn, rate2, years)
    /\ monthly_saving = R(0)
    /\ fv = R(0) /\ fv2 = R(0) /\ i = 0
    /\ result = [raised |-> FALSE, v |-> R(0)]
    /\ result2 = [raised |-> FALSE, v |-> R(0)]

\* lines 65-67
savings_start ==
    /\ fpc = "call" /\ fn = "savings_projection"
    /\ monthly_saving' = amount
    /\ fv' = R(0) /\ fv2' = R(0)
    /\ i' = 0
    /\ fpc' = "savings_loop"
    /\ UNCHANGED <<fn, amount, annual_rate_pct, rate2, years, result, result2>>
    /\ UNCHANGED taxVars

\* lines 68-69: one iteration of "for _ in range(n)"
savings_iter ==
    /\ fpc = "savings_loop"
    /\ i < Periods(years)
    /\ fv' = SavingsStep(fv, monthly_saving, MonthlyRate(annual_rate_pct))
    /\ fv2' = SavingsStep(fv2, monthly_saving, MonthlyRate(rate2))
    /\ i' = i + 1
    /\ UNCHANGED <<fpc, fn, amount, monthly_saving, annual_rate_pct, rate2,
                   years, result, result2>>
    /\ UNCHANGED taxVars

\* line 70
savings_return ==
    /\ fpc = "savings_loop"
    /\ i >= Periods(years)
    /\ result' = [raised |-> FALSE, v |-> fv]
    /\ result2' = [raised |-> FALSE, v |-> fv2]
    /\ fpc' = "done"
    /\ UNCHANGED <<fn, amount, monthly_saving, annual_rate_pct, rate2, years,
                   fv, fv2, i>>
    /\ UNCHANGED taxVars

\* lines 72-75
lump_sum_call ==
    /\ fpc = "call" /\ fn = "lump_sum_growth"
    /\ result' = [raised |-> FALSE,
                  v |-> lump_sum_growth(amount, annual_rate_pct, years)]
    /\ result2' = [raised |-> FALSE,
                   v |-> lump_sum_growth(amount, rate2, years)]
    /\ fpc' = "done"
    /\ UNCHANGED <<fn, amount, monthly_saving, annual_rate_pct, rate2, years,
                   fv, fv2, i>>
    /\ UNCHANGED taxVars

\* lines 77-85
sip_call ==
    /\ fpc = "call" /\ fn = "sip_needed"
    /\ result' = sip_needed(amount, annual_rate_pct, years)
    /\ result2' = sip_needed(amount, rate2, years)
    /\ fpc' = "done"
    /\ UNCHANGED <<fn, amount, monthly_saving, annual_rate_pct, rate2, years,
                   fv, fv2, i>>
    /\ UNCHANGED taxVars

\* savings_projection(sip_needed(goal, rate, years), rate, years): the
\* payment returned by the solver is given to the forward engine
project_payment ==
    /\ fpc = "done" /\ fn = "sip_needed"
    /\ ~result.raised
    /\ fn' = "round_trip"
    /\ monthly_saving' = result.v
    /\ fv' = R(0) /\ fv2' = R(0)
    /\ i' = 0
    /\ fpc' = "savings_loop"
    /\ UNCHANGED <<amount, annual_rate_pct, rate2, years, result, result2>>
    /\ UNCHANGED taxVars

FinNext ==
    \/ savings_start
    \/ savings_iter
    \/ savings_return
    \/ lump_sum_call
    \/ sip_call
    \/ project_payment

SpecFin == FinInit /\ [][FinNext]_vars

---------------------------------------------------------------------------
(* Properties of the calculators, checked under SpecFin.                   *)

\* the value after k steps of balance := (balance + m) * (1 + rate/100/12)
\* from balance 0: m * (1+r) * ((1+r)^k - 1) / r, or m * k when r = 0
DepositThenCompound(m, rate, k) ==
    LET r == RDiv(rate, R(1200))
    IN  IF r = R(0) THEN RMul(m, R(k))
        ELSE RDiv(RMul(RMul(m, RAdd(R(1), r)),
                       RSub(RPow(RAdd(R(1), r), k), R(1))), r)

\* the ordinary-annuity future value of a payment P over k periods:
\* P * ((1+r)^k - 1) / r, or P * k when r = 0.  It is also the value after
\* k steps of the other ordering, balance := balance * (1+r) + P.
OrdinaryAnnuityFV(P, rate, k) ==
    LET r == RDiv(rate, R(1200))
    IN  IF r = R(0) THEN RMul(P, R(k))
        ELSE RDiv(RMul(P, RSub(RPow(RAdd(R(1), r), k), R(1))), r)

\* the loop of savings_projection holds the recurrence's balance after i
\* steps, and returns it after years * 12 steps
SavingsRunsRecurrence ==
    /\ fpc = "savings_loop"
          => /\ i <= 12 * years
             /\ fv = DepositThenCompound(monthly_saving, annual_rate_pct, i)
    /\ (fpc = "done" /\ fn = "savings_projection")
          => /\ i = 12 * years
             /\ result.v = DepositThenCompound(amount, annual_rate_pct,
                                               12 * years)
             /\ years = 0 => result.v = R(0)

\* C3 as stated: savings_projection returns the balance of the
\* deposit-then-compound recurrence after years * 12 steps (0 for
\* years = 0), which differs from the compound-then-deposit value whenever
\* rate # 0 and monthlyAmount # 0.
C3_Original ==
    /\ SavingsRunsRecurrence
    /\ (fpc = "done" /\ fn = "savings_projection"
          /\ annual_rate_pct # R(0) /\ amount # R(0))
          => result.v # OrdinaryAnnuityFV(amount, annual_rate_pct, 12 * years)

\* C3 amended: savings_projection returns the balance of the
\* deposit-then-compound recurrence after years * 12 steps (0 for
\* years = 0), which differs from the compound-then-deposit value whenever
\* rate # 0, monthlyAmount # 0, years > 0 and rate # -2400 (the monthly
\* factor 1 + rate/1200 is not -1).
C3_SavingsRecurrence ==
    /\ SavingsRunsRecurrence
    /\ (fpc = "done" /\ fn = "savings_projection"
          /\ annual_rate_pct # R(0) /\ amount # R(0)
          /\ years > 0 /\ annual_rate_pct # R(-2400))
          => result.v # OrdinaryAnnuityFV(amount, annual_rate_pct, 12 * years)

\* C3 witness: twelve steps run at a non-zero rate on a non-zero amount,
\* the result differing from the other ordering's
C3_Witness ==
    /\ fpc = "done" /\ fn = "savings_projection"
    /\ years = 1 /\ i = 12
    /\ annual_rate_pct = R(600) /\ amount = R(3)
    /\ result.v # OrdinaryAnnuityFV(amount, annual_rate_pct, 12)

\* C4 as stated: for rates 0 <= r1 <= r2 and the other arguments fixed,
\* lump_sum_growth and savings_projection at r1 are no larger than at r2.
C4_Original ==
    (fpc = "done" /\ fn \in {"lump_sum_growth", "savings_projection"}
       /\ RLe(R(0), annual_rate_pct) /\ RLe(annual_rate_pct, rate2))
       => RLe(result.v, result2.v)

\* C4 amended: for rates 0 <= r1 <= r2, a principal or monthly amount >= 0
\* and years >= 0, lump_sum_growth and savings_projection at r1 are no
\* larger than at r2.
C4_RateMonotone ==
    (fpc = "done" /\ fn \in {"lump_sum_growth", "savings_projection"}
       /\ RLe(R(0), amount)
       /\ RLe(R(0), annual_rate_pct) /\ RLe(annual_rate_pct, rate2))
       => RLe(result.v, result2.v)

\* C4 witness: a positive monthly amount saved for a year at two different
\* non-negative rates, the higher rate giving strictly more
C4_Witness ==
    /\ fpc = "done" /\ fn = "savings_projection"
    /\ RLt(R(0), amount) /\ years = 1
    /\ RLe(R(0), annual_rate_pct) /\ RLt(annual_rate_pct, rate2)
    /\ RLt(result.v, result2.v)

\* C5: for rate > 0 and years > 0 the payment sip_needed returns, put
\* through the ordinary-annuity future value over years * 12 periods,
\* gives the goal back.
C5_SolverRoundTrip ==
    (fpc = "done" /\ fn = "sip_needed"
       /\ RLt(R(0), annual_rate_pct) /\ years > 0)
       => /\ ~result.raised
          /\ OrdinaryAnnuityFV(result.v, annual_rate_pct, 12 * years) = amount

\* C5 witness: a payment solved for a non-zero goal at a positive rate
C5_Witness ==
    /\ fpc = "done" /\ fn = "sip_needed"
    /\ RLt(R(0), annual_rate_pct) /\ years > 0
    /\ amount = R(3) /\ ~result.raised /\ RLt(R(0), result.v)

\* C6: for rate > 0, years > 0 and goal > 0, the payment of sip_needed put
\* through savings_projection gives goal * (1 + rate/100/12), which is
\* above the goal.
C6_ForwardOvershoots ==
    (fpc = "done" /\ fn = "round_trip"
       /\ RLt(R(0), annual_rate_pct) /\ years > 0 /\ RLt(R(0), amount))
       => /\ result.v = RMul(amount, RAdd(R(1), RDiv(annual_rate_pct, R(1200))))
          /\ result.v # amount
          /\ RLt(amount, result.v)

\* C6 witness: the solver's payment projected forward for a year at a
\* positive rate and a positive goal
C6_Witness ==
    /\ fpc = "done" /\ fn = "round_trip"
    /\ RLt(R(0), annual_rate_pct) /\ years = 1 /\ amount = R(3)
    /\ i = 12 /\ RLt(amount, result.v)

=============================================================================
